---- MODULE Spec2Model ----
(***************************************************************************)
(* Model of the whispernotes upload and processing pipeline:               *)
(*   services/file-uploader      upload sessions, progress records, queue  *)
(*   services/video-processor    consumer of video_processing_queue        *)
(*   services/whisper-transcriber consumer of the same queue, /transcribe  *)
(* Redis keys are modelled as per-session records, MinIO objects as        *)
(* per-session contents, RabbitMQ as one FIFO queue with unacked           *)
(* deliveries held by the consumers.                                       *)
(***************************************************************************)
EXTENDS Integers, Sequences, FiniteSets, TLC

\* ------------------------------------------------------------------ bounds
\* Longest parts list a session accumulates (number of upload_part calls).
MaxParts == 2
\* Broker redeliveries of an unacknowledged message (at-least-once delivery).
MaxRedeliver == 1

\* Longest audio, in seconds.
MaxDuration == 11
\* Most segments in a transcription result.
MaxSegments == 2
\* Largest participant_count.
MaxSpeakers == 3
\* Calls of update_speaker_names on one transcription entry.
MaxRemaps == 2
\* Longest queue at which a client still sends a direct upload.
MaxQueue == 2

\* ------------------------------------------------------- program constants
\* Part size in MiB used to estimate total_parts from file_size.
PART_SIZE_MB == 5
\* Upload progress spans UPLOAD_BASE .. UPLOAD_BASE + UPLOAD_SPAN percent.
UPLOAD_SPAN == 45
UPLOAD_BASE == 5
\* progress stored with the processing entry written by POST /transcribe
TRANSCRIBE_START == 65
\* progress stored with the completed transcription entry
TRANSCRIBE_DONE == 100
\* progress sent after the result is stored, before the LLM hand-off
ANALYSIS_PROGRESS == 95

\* ex of upload_session:{sid}, in seconds
SESSION_TTL == 86400

\* end in seconds of the segment the mock transcription returns
MOCK_SEGMENT_END == 10

\* length in seconds of a turn of mock_diarize_speakers
SEGMENT_LENGTH == 5
\* bounds of the speaker count given to the diarization
MIN_SPEAKERS == 1
MAX_SPEAKERS == 5

\* ------------------------------------------------------------------ inputs
Sessions == {"s1"}
PartNumbers == {1, 2, 3}
\* Initialization requests: declared file size in MiB (one part, three parts, and
\* a size the request model refuses), the number of speakers, and whether the
\* filename carries a media extension.
UploadRequests ==
    {[file_size |-> 3, num_speakers |-> 1, media |-> TRUE],
     [file_size |-> 12, num_speakers |-> 2, media |-> FALSE],
     [file_size |-> 0, num_speakers |-> 2, media |-> TRUE]}
\* progress values and statuses a caller sends to the progress endpoints
ProgressValues == {-1, 0, 50, 100, 101}
ProgressStatuses == {"processing", "completed"}

\* part-number sets a client submits with CompleteUpload
ClaimedParts == {{1}, {1, 2}, {1, 3}}

\* progress checkpoints of process_video_async
VP_CHECKPOINTS == <<10, 25, 40, 60>>
\* progress checkpoints of transcribe_async before the result is stored
\* (85 is sent only when participant_count > 1)
TA_CHECKPOINTS == <<65, 70, 75, 80, 85, 90>>

\* language lists of the languages form field of POST /api/upload/video
LanguageLists == (SUBSET {"en", "ko", "es"}) \ {{}}

\* upload_part requests of one client that are in flight together
UploadSlots == {"a", "b"}

\* start and end times of transcript segments, in seconds
TimePoints == {0, 5, 8}

\* a segment as the inference returns it: no speaker key yet
Segment(start, end, text) ==
    [start |-> start, end |-> end, text |-> text, speaker |-> "", speaker_name |-> ""]

SegmentTexts == <<"t1", "t2", "t3">>

\* results of transcribe_audio: up to MaxSegments segments with start <= end
TranscriptionResults ==
    UNION {[1..n -> {<<a, b>> \in TimePoints \X TimePoints : a <= b}] : n \in 1..MaxSegments}

\* f"SPEAKER_{i}"
SpeakerLabel(i) ==
    <<"SPEAKER_0", "SPEAKER_1", "SPEAKER_2", "SPEAKER_3", "SPEAKER_4">>[i + 1]

\* speaker_names lists given to transcribe_async: names by position, some of them
\* empty or blank
SpeakerNameLists ==
    {<<"Alice">>, <<" ", "Bob">>, <<"Alice", "", "Carol">>}

\* speaker_map bodies of POST /transcription/{session_id}/speakers
SpeakerMaps ==
    {("SPEAKER_0" :> "Alice"),
     ("SPEAKER_0" :> "Alice") @@ ("SPEAKER_1" :> "Bob"),
     ("SPEAKER_0" :> "SPEAKER_1") @@ ("SPEAKER_1" :> "Bob")}

\* email addresses of the auth service; ADMIN_EMAIL is the one of the environment
Emails == {"admin@x", "u1@x", "u2@x"}
ADMIN_EMAIL == "admin@x"

\* what the driver returns for users.id: a str for a text column, another type
\* (uuid.UUID, int) for a generated id; the table is declared outside the service
IdTypes == {"text", "uuid"}

Workers == {"vp", "wt"}
\* a background transcribe_async task of the whisper service is named by its
\* session; "second" names one more background task, for a further accepted
\* POST /transcribe
TaskSlots == Sessions \cup {"second"}
Procs == Workers \cup TaskSlots

VARIABLES
    upload_session,   \* redis upload_session:{sid}
    part_objects,     \* MinIO {object_name}.part{n}
    final_object,     \* MinIO {object_name}: the concatenated part numbers
    upload_progress,  \* redis upload_progress:{sid}
    transcription,    \* redis transcription:{sid}
    redis_keys,       \* other keys set for a session: <<name, sid>>
    queue,            \* RabbitMQ video_processing_queue
    proc,             \* position of each consumer / background task
    response,         \* last response to a request per session, with the part
                      \* numbers a completion request carried and the body of an
                      \* answer of GET /transcription/{session_id}
    stage_failed,     \* sessions one of whose stage capabilities failed
    redelivered,      \* number of broker redeliveries so far
    uploads,          \* upload_part requests between reading and writing the session
    transcript,       \* segments and speaker turns of transcription:{sid}
    backend,          \* uploads/{upload_id}/ of the backend API and its last answers
    auth              \* users and access_requests tables of the auth service and
                      \* its last answer

vars == <<upload_session, part_objects, final_object, upload_progress, transcription,
          redis_keys, queue, proc, response, stage_failed, redelivered, uploads,
          transcript, backend, auth>>

\* ------------------------------------------------------------------ values
NoSession == [exists |-> FALSE, parts |-> <<>>, file_size |-> 0, num_speakers |-> 0,
              media |-> FALSE, upload_complete |-> FALSE, ex |-> 0]
NoProgress == [progress |-> 0, status |-> "absent"]
NoTranscription == [status |-> "absent", progress |-> 0, result |-> "none"]
NoObject == [exists |-> FALSE, content |-> <<>>]
NoMsg == [session_id |-> "none", kind |-> "none", num_speakers |-> 0, media |-> FALSE,
          redelivered |-> FALSE]
IdleProc == [pc |-> "idle", msg |-> NoMsg, sid |-> "none", i |-> 0, settle |-> <<>>,
             participant_count |-> 0, capability_ok |-> TRUE]
NoResponse == [op |-> "none", code |-> 0, claimed |-> {}, body |-> ""]
NoEntry == [status |-> "absent", segments |-> <<>>, diarized_segments |-> <<>>,
            transcriptData |-> [segments |-> <<>>, diarized_segments |-> <<>>]]
NoTranscript == [phase |-> "none", duration |-> 0, participant_count |-> 0,
                 segments |-> <<>>, turns |-> <<>>, entry |-> NoEntry, remaps |-> 0,
                 speaker_names |-> <<>>]
NoResult == [transcript |-> "", summary |-> "", translations |-> {}]
NoBackend == [phase |-> "none", languages |-> {}, result_file |-> "absent",
              result |-> NoResult, error_log |-> FALSE, status |-> "none",
              result_code |-> 0, result_body |-> NoResult]
NoAuth == [started |-> FALSE, id_type |-> "text",
           users |-> [e \in Emails |-> "none"],
           requests |-> [e \in Emails |-> "none"],
           op |-> "none", code |-> 0]
NoUpload == [pc |-> "idle", sid |-> "none", part_number |-> 0, session_data |-> NoSession]

Range(f) == {f[x] : x \in DOMAIN f}

Max(a, b) == IF a >= b THEN a ELSE b

\* ------------------------------------------------------------ file-uploader

\* total_parts estimated from file_size (5 MiB per part)
TotalParts(file_size) == Max(1, (file_size + PART_SIZE_MB - 1) \div PART_SIZE_MB)

\* progress_percentage of upload_part; the file sizes are chosen so that the
\* division is exact
UploadPercent(nparts, total_parts) == (nparts * UPLOAD_SPAN) \div total_parts + UPLOAD_BASE

\* ProgressUpdate: progress is validated ge=0, le=100
ProgressUpdateValid(progress) == progress >= 0 /\ progress <= 100

\* POST /upload/progress/{session_id}: overwrites the progress record and, when a
\* transcription entry exists, its status and progress; a body that fails
\* validation is rejected and changes nothing.
update_progress(s, progress, status) ==
    IF ProgressUpdateValid(progress)
    THEN /\ upload_progress' = [upload_progress EXCEPT
                                  ![s] = [progress |-> progress, status |-> status]]
         /\ transcription' =
              IF transcription[s].status # "absent"
              THEN [transcription EXCEPT ![s] = [@ EXCEPT !.status = status,
                                                          !.progress = progress]]
              ELSE transcription
    ELSE UNCHANGED <<upload_progress, transcription>>

\* POST /upload/progress/{session_id} as a request of its own
post_update_progress(s, progress, status) ==
    /\ update_progress(s, progress, status)
    /\ UNCHANGED <<upload_session, part_objects, final_object, redis_keys, queue, proc,
                   response, stage_failed, redelivered, uploads, transcript, backend, auth>>

\* POST /upload/complete-upload: the body is read as plain JSON and its progress
\* is stored as it came; the transcription entry is not touched
update_progress_alt(s, progress, status) ==
    /\ upload_progress' = [upload_progress EXCEPT
                             ![s] = [progress |-> progress, status |-> status]]
    /\ UNCHANGED <<upload_session, part_objects, final_object, transcription,
                   redis_keys, queue, proc, response, stage_failed, redelivered,
                   uploads, transcript, backend, auth>>

\* POST /upload/complete: progress 100 with the status of the body
handle_completion(s, status) ==
    /\ upload_progress' = [upload_progress EXCEPT
                             ![s] = [progress |-> 100, status |-> status]]
    /\ UNCHANGED <<upload_session, part_objects, final_object, transcription,
                   redis_keys, queue, proc, response, stage_failed, redelivered,
                   uploads, transcript, backend, auth>>

\* UploadInitializationRequest: file_size is declared with Field(..., gt=0)
RequestValid(request) == request.file_size > 0

\* initialize_upload without the validation of the request model
initialize_upload_unchecked(s, request) ==
    /\ ~upload_session[s].exists
    /\ upload_session' = [upload_session EXCEPT
                            ![s] = [exists |-> TRUE, parts |-> <<>>,
                                    file_size |-> request.file_size,
                                    num_speakers |-> request.num_speakers,
                                    media |-> request.media,
                                    upload_complete |-> FALSE,
                                    ex |-> SESSION_TTL]]
    /\ response' = [response EXCEPT ![s] = [op |-> "initialize", code |-> 200,
                                            claimed |-> {}, body |-> ""]]
    /\ UNCHANGED <<part_objects, final_object, upload_progress, transcription,
                   redis_keys, queue, proc, stage_failed, redelivered, uploads, transcript, backend, auth>>

\* POST /api/v1/uploads/initialize: a body the request model refuses is answered
\* 422 before the handler runs; otherwise the session record is stored under a new
\* uuid4 (s is an id without a record)
initialize_upload(s, request) ==
    /\ ~upload_session[s].exists
    /\ IF RequestValid(request)
       THEN /\ upload_session' = [upload_session EXCEPT
                                    ![s] = [exists |-> TRUE, parts |-> <<>>,
                                            file_size |-> request.file_size,
                                            num_speakers |-> request.num_speakers,
                                            media |-> request.media,
                                            upload_complete |-> FALSE,
                                            ex |-> SESSION_TTL]]
            /\ response' = [response EXCEPT ![s] = [op |-> "initialize", code |-> 200,
                                                    claimed |-> {}, body |-> ""]]
       ELSE /\ response' = [response EXCEPT ![s] = [op |-> "initialize", code |-> 422,
                                                    claimed |-> {}, body |-> ""]]
            /\ UNCHANGED upload_session
    /\ UNCHANGED <<part_objects, final_object, upload_progress, transcription,
                   redis_keys, queue, proc, stage_failed, redelivered, uploads, transcript, backend, auth>>

\* POST /api/v1/uploads/{session_id}/presigned-url: 404 without a session record,
\* otherwise the URL of the part; nothing is stored
get_presigned_upload_url(s, part_number) ==
    /\ response' = [response EXCEPT
                      ![s] = [op |-> "presigned_url",
                              code |-> IF upload_session[s].exists THEN 200 ELSE 404,
                              claimed |-> {}, body |-> ""]]
    /\ UNCHANGED <<upload_session, part_objects, final_object, upload_progress,
                   transcription, redis_keys, queue, proc, stage_failed, redelivered,
                   uploads, transcript, backend, auth>>

\* POST /api/v1/uploads/{session_id}/upload-part/{part_number}: 404 without a
\* session record; otherwise the part is stored and appended to the session
upload_part(s, part_number) ==
    IF ~upload_session[s].exists
    THEN /\ response' = [response EXCEPT ![s] = [op |-> "upload_part", code |-> 404,
                                                 claimed |-> {}, body |-> ""]]
         /\ UNCHANGED <<upload_session, part_objects, final_object, upload_progress,
                        transcription, redis_keys, queue, proc, stage_failed,
                        redelivered, uploads, transcript, backend, auth>>
    ELSE /\ Len(upload_session[s].parts) < MaxParts
         /\ LET parts == Append(upload_session[s].parts, part_number)
                total_parts == TotalParts(upload_session[s].file_size)
            IN /\ part_objects' = [part_objects EXCEPT ![s] = @ \cup {part_number}]
               /\ upload_session' = [upload_session EXCEPT
                                       ![s] = [@ EXCEPT !.parts = parts,
                                                        !.ex = SESSION_TTL]]
               /\ update_progress(s, UploadPercent(Len(parts), total_parts), "uploading")
         /\ response' = [response EXCEPT ![s] = [op |-> "upload_part", code |-> 200,
                                                 claimed |-> {}, body |-> ""]]
         /\ UNCHANGED <<final_object, redis_keys, queue, proc, stage_failed,
                        redelivered, uploads, transcript, backend, auth>>

\* upload_part up to `await file.read()`: the session has been read from redis
upload_part_read(r, s, part_number) ==
    /\ uploads[r].pc = "idle"
    /\ upload_session[s].exists
    /\ Len(upload_session[s].parts) < MaxParts
    /\ uploads' = [uploads EXCEPT
                     ![r] = [pc |-> "read", sid |-> s, part_number |-> part_number,
                             session_data |-> upload_session[s]]]
    /\ UNCHANGED <<upload_session, part_objects, final_object, upload_progress,
                   transcription, redis_keys, queue, proc, response, stage_failed,
                   redelivered, transcript, backend, auth>>

\* upload_part after the await: the part object is stored, the part is appended to
\* the session data read before the await, and that session data is written back
upload_part_write(r) ==
    /\ uploads[r].pc = "read"
    /\ LET s == uploads[r].sid
           session_data == uploads[r].session_data
           parts == Append(session_data.parts, uploads[r].part_number)
           total_parts == TotalParts(session_data.file_size)
       IN /\ part_objects' = [part_objects EXCEPT ![s] = @ \cup {uploads[r].part_number}]
          /\ upload_session' = [upload_session EXCEPT
                                  ![s] = [session_data EXCEPT !.parts = parts,
                                                              !.ex = SESSION_TTL]]
          /\ update_progress(s, UploadPercent(Len(parts), total_parts), "uploading")
          /\ response' = [response EXCEPT ![s] = [op |-> "upload_part", code |-> 200,
                                                  claimed |-> {}, body |-> ""]]
    /\ uploads' = [uploads EXCEPT ![r] = NoUpload]
    /\ UNCHANGED <<final_object, redis_keys, queue, proc, stage_failed, redelivered,
                   transcript, backend, auth>>

\* all_parts.sort(key=lambda p: p["part_number"])
RECURSIVE Insert(_, _)
Insert(x, sorted) ==
    IF sorted = <<>> THEN <<x>>
    ELSE IF x <= Head(sorted) THEN <<x>> \o sorted
    ELSE <<Head(sorted)>> \o Insert(x, Tail(sorted))

RECURSIVE SortParts(_)
SortParts(parts) ==
    IF parts = <<>> THEN <<>> ELSE Insert(Head(parts), SortParts(Tail(parts)))

\* the check complete_upload makes on the recorded parts: it only logs a warning
PartsConsecutive(sorted) == sorted = [k \in 1..Len(sorted) |-> k]

\* The message publish_to_video_processor puts on video_processing_queue.
StageMessage(s) ==
    [session_id |-> s, kind |-> "ok", num_speakers |-> upload_session[s].num_speakers,
     media |-> upload_session[s].media, redelivered |-> FALSE]

\* publish_to_video_processor: a broker failure is logged and swallowed
publish_to_video_processor(s, broker_up) ==
    queue' = IF broker_up THEN Append(queue, StageMessage(s)) ELSE queue

\* Whether complete_upload goes on to assemble the object: parts were recorded and
\* every recorded part can be downloaded.
CompletionAccepted(s, claimed) ==
    /\ upload_session[s].parts # <<>>
    /\ Range(upload_session[s].parts) \subseteq part_objects[s]

\* complete_upload that saves the sorted parts and publishes before it finds the
\* completion rejected
complete_upload_eager(s, claimed, broker_up) ==
    /\ upload_session[s].exists
    /\ LET all_parts == SortParts(upload_session[s].parts)
       IN /\ upload_session' = [upload_session EXCEPT
                                  ![s] = [@ EXCEPT !.parts = all_parts,
                                                   !.upload_complete = TRUE,
                                                   !.ex = SESSION_TTL]]
          /\ publish_to_video_processor(s, broker_up)
          /\ IF CompletionAccepted(s, claimed)
             THEN /\ final_object' = [final_object EXCEPT
                                        ![s] = [exists |-> TRUE, content |-> all_parts]]
                  /\ part_objects' = [part_objects EXCEPT ![s] = @ \ Range(all_parts)]
                  /\ response' = [response EXCEPT
                                    ![s] = [op |-> "complete", code |-> 200,
                                            claimed |-> claimed, body |-> ""]]
             ELSE /\ response' = [response EXCEPT
                                    ![s] = [op |-> "complete", code |-> 500,
                                            claimed |-> claimed, body |-> ""]]
                  /\ UNCHANGED <<final_object, part_objects>>
    /\ UNCHANGED <<upload_progress, transcription, redis_keys, proc, stage_failed,
                   redelivered, uploads, transcript, backend, auth>>

\* POST /api/v1/uploads/{session_id}/complete
complete_upload(s, claimed, broker_up) ==
    /\ upload_session[s].exists
    /\ IF CompletionAccepted(s, claimed)
       THEN LET all_parts == SortParts(upload_session[s].parts)
            IN /\ final_object' = [final_object EXCEPT
                                     ![s] = [exists |-> TRUE, content |-> all_parts]]
               /\ part_objects' = [part_objects EXCEPT ![s] = @ \ Range(all_parts)]
               /\ upload_session' = [upload_session EXCEPT
                                       ![s] = [@ EXCEPT !.parts = all_parts,
                                                        !.upload_complete = TRUE,
                                                        !.ex = SESSION_TTL]]
               /\ publish_to_video_processor(s, broker_up)
               /\ response' = [response EXCEPT
                                 ![s] = [op |-> "complete", code |-> 200,
                                         claimed |-> claimed, body |-> ""]]
       ELSE /\ response' = [response EXCEPT
                              ![s] = [op |-> "complete", code |-> 500,
                                      claimed |-> claimed, body |-> ""]]
            /\ UNCHANGED <<final_object, part_objects, upload_session, queue>>
    /\ UNCHANGED <<upload_progress, transcription, redis_keys, proc, stage_failed,
                   redelivered, uploads, transcript, backend, auth>>

\* direct_upload_file that marks the session complete and publishes without
\* storing the file
direct_upload_file_unstored(s, broker_up) ==
    IF ~upload_session[s].exists
    THEN /\ response' = [response EXCEPT ![s] = [op |-> "direct_upload", code |-> 404,
                                                 claimed |-> {}, body |-> ""]]
         /\ UNCHANGED <<upload_session, part_objects, final_object, upload_progress,
                        transcription, redis_keys, queue, proc, stage_failed,
                        redelivered, uploads, transcript, backend, auth>>
    ELSE /\ upload_session' = [upload_session EXCEPT
                                 ![s] = [@ EXCEPT !.upload_complete = TRUE, !.ex = 0]]
         /\ publish_to_video_processor(s, broker_up)
         /\ response' = [response EXCEPT ![s] = [op |-> "direct_upload", code |-> 200,
                                                 claimed |-> {}, body |-> ""]]
         /\ UNCHANGED <<final_object, part_objects, upload_progress, transcription,
                        redis_keys, proc, stage_failed, redelivered, uploads,
                        transcript, backend, auth>>

\* POST /api/v1/uploads/{session_id}/direct-upload: 404 without a session record;
\* otherwise the file is stored as the object (content <<0>>: the file as sent),
\* the session is marked complete (file_size becomes the size received, taken
\* equal to the declared one) and written back with redis set and no ex argument,
\* and the stage message is published
direct_upload_file(s, broker_up) ==
    IF ~upload_session[s].exists
    THEN /\ response' = [response EXCEPT ![s] = [op |-> "direct_upload", code |-> 404,
                                                 claimed |-> {}, body |-> ""]]
         /\ UNCHANGED <<upload_session, part_objects, final_object, upload_progress,
                        transcription, redis_keys, queue, proc, stage_failed,
                        redelivered, uploads, transcript, backend, auth>>
    ELSE /\ final_object' = [final_object EXCEPT
                               ![s] = [exists |-> TRUE, content |-> <<0>>]]
         /\ upload_session' = [upload_session EXCEPT
                                 ![s] = [@ EXCEPT !.upload_complete = TRUE, !.ex = 0]]
         /\ publish_to_video_processor(s, broker_up)
         /\ response' = [response EXCEPT ![s] = [op |-> "direct_upload", code |-> 200,
                                                 claimed |-> {}, body |-> ""]]
         /\ UNCHANGED <<part_objects, upload_progress, transcription, redis_keys, proc,
                        stage_failed, redelivered, uploads, transcript, backend, auth>>

\* GET /api/v1/uploads/{session_id}/status: upload_init:{sid} is written by no
\* handler, so the answer is the progress record, or 404 without one
get_upload_status(s) ==
    /\ response' = [response EXCEPT
                      ![s] = [op |-> "status",
                              code |-> IF upload_progress[s].status # "absent"
                                       THEN 200 ELSE 404,
                              claimed |-> {}, body |-> ""]]
    /\ UNCHANGED <<upload_session, part_objects, final_object, upload_progress,
                   transcription, redis_keys, queue, proc, stage_failed, redelivered,
                   uploads, transcript, backend, auth>>

\* POST /api/v1/immediate-transcription: the client creates the transcription entry
\* and resets the progress record before uploading
create_immediate_transcription(s) ==
    /\ transcription' = [transcription EXCEPT
                           ![s] = [status |-> "uploading", progress |-> 0,
                                   result |-> "none"]]
    /\ upload_progress' = [upload_progress EXCEPT
                             ![s] = [progress |-> 0, status |-> "uploading"]]
    /\ UNCHANGED <<upload_session, part_objects, final_object, redis_keys, queue, proc,
                   response, stage_failed, redelivered, uploads, transcript, backend, auth>>

\* the keys delete_transcript removes besides the transcription entry, the
\* session record and the progress record
DeletedKeys == {"transcription_error", "transcribing", "llm_analysis"}

\* DELETE /api/v1/transcripts/{session_id}: 404 without a transcription entry;
\* otherwise the entry and the related keys are deleted, and the object the entry
\* names with object_name is removed. The entries transcribe_async stores have no
\* object_name; an entry a client stored may have one.
delete_transcript(s, object_named) ==
    IF transcription[s].status = "absent"
    THEN /\ response' = [response EXCEPT ![s] = [op |-> "delete", code |-> 404,
                                                 claimed |-> {}, body |-> ""]]
         /\ UNCHANGED <<upload_session, part_objects, final_object, upload_progress,
                        transcription, redis_keys, queue, proc, stage_failed,
                        redelivered, uploads, transcript, backend, auth>>
    ELSE /\ object_named => transcription[s].result = "none"
         /\ transcription' = [transcription EXCEPT ![s] = NoTranscription]
         /\ upload_session' = [upload_session EXCEPT ![s] = NoSession]
         /\ upload_progress' = [upload_progress EXCEPT ![s] = NoProgress]
         /\ redis_keys' = redis_keys \ {<<name, s>> : name \in DeletedKeys}
         /\ final_object' = IF object_named
                            THEN [final_object EXCEPT ![s] = NoObject]
                            ELSE final_object
         /\ response' = [response EXCEPT ![s] = [op |-> "delete", code |-> 200,
                                                 claimed |-> {}, body |-> ""]]
         /\ UNCHANGED <<part_objects, queue, proc, stage_failed, redelivered,
                        uploads, transcript, backend, auth>>

\* ------------------------------------------------------------------ broker

HasKey(name, s) == <<name, s>> \in redis_keys

\* basic_nack(delivery_tag, requeue=True) in place of basic_ack: the settlement
\* no handler of the services makes
BasicNackRequeue(w) ==
    [IdleProc EXCEPT !.settle = Append(proc[w].settle, "nack")]

\* basic_ack(delivery_tag): the consumer settles its current delivery
BasicAck(w) ==
    [IdleProc EXCEPT !.settle = Append(proc[w].settle, "ack")]

\* The broker hands the head of video_processing_queue to an idle consumer
\* (prefetch_count=1, manual acknowledgement); both services consume this queue.
Deliver(w) ==
    /\ w \in Workers
    /\ proc[w].pc = "idle"
    /\ queue # <<>>
    /\ proc' = [proc EXCEPT ![w] = [IdleProc EXCEPT !.pc = "recv", !.msg = Head(queue)]]
    /\ queue' = Tail(queue)
    /\ UNCHANGED <<upload_session, part_objects, final_object, upload_progress,
                   transcription, redis_keys, response, stage_failed, redelivered, uploads, transcript, backend, auth>>

\* At-least-once delivery: a delivery that is not yet acknowledged is put back on
\* the queue, flagged redelivered, when the broker loses the consumer's heartbeat.
\* The copy waits on the queue until a consumer is idle, so the moment it is put
\* back is fixed to the start of the handler; when it is delivered stays free.
Redeliver(w) ==
    /\ w \in Workers
    /\ proc[w].pc = "recv"
    /\ proc[w].settle = <<>>
    /\ redelivered < MaxRedeliver
    /\ queue' = Append(queue, [proc[w].msg EXCEPT !.redelivered = TRUE])
    /\ redelivered' = redelivered + 1
    /\ UNCHANGED <<upload_session, part_objects, final_object, upload_progress,
                   transcription, redis_keys, proc, response, stage_failed, uploads, transcript, backend, auth>>

\* Bodies found on the durable queue when the consumers start: nothing, a body
\* that is not JSON ("badjson"), or one that lacks session_id / object_name
\* ("invalid").
InitialQueues ==
    {<<>>, <<[NoMsg EXCEPT !.kind = "badjson"]>>, <<[NoMsg EXCEPT !.kind = "invalid"]>>}

\* --------------------------------------------------------- video-processor

\* process_upload_message, up to the start of process_video_async: a body that
\* does not parse raises into the handler's except clause, which acknowledges; a
\* message without session_id or object_name, or whose object cannot be
\* downloaded, is acknowledged and dropped.
VP_process_upload_message(download_ok) ==
    /\ proc["vp"].pc = "recv"
    /\ LET m == proc["vp"].msg
       IN IF m.kind # "ok"
          THEN /\ proc' = [proc EXCEPT !["vp"] = BasicAck("vp")]
               /\ UNCHANGED stage_failed
          ELSE IF ~(download_ok /\ final_object[m.session_id].exists)
          THEN /\ proc' = [proc EXCEPT !["vp"] = BasicAck("vp")]
               /\ stage_failed' = stage_failed \cup {m.session_id}
          ELSE /\ proc' = [proc EXCEPT !["vp"] = [@ EXCEPT !.pc = "cp", !.i = 1,
                                                           !.sid = m.session_id,
                                                           !.participant_count = m.num_speakers]]
               /\ UNCHANGED stage_failed
    /\ UNCHANGED <<upload_session, part_objects, final_object, upload_progress,
                   transcription, redis_keys, queue, response, redelivered, uploads, transcript, backend, auth>>

\* POST /transcribe of the whisper service: 409 while transcribing:{sid} is set;
\* otherwise it sets the key, stores the processing entry and starts
\* transcribe_async as a background task.
TranscribeAccepted(s) == ~HasKey("transcribing", s)

transcribe_audio_endpoint(s, participant_count) ==
    /\ redis_keys' = redis_keys \cup {<<"transcribing", s>>}
    /\ transcription' = [transcription EXCEPT
                           ![s] = [status |-> "processing",
                                   progress |-> TRANSCRIBE_START, result |-> "none"]]
    /\ proc' = [proc EXCEPT
                  ![s] = [IdleProc EXCEPT !.pc = "ta_cp", !.i = 1, !.sid = s,
                                          !.participant_count = participant_count],
                  !["vp"] = [@ EXCEPT !.pc = "ack"]]

\* POST /transcribe as a request of its own, from the video-processor or any other
\* caller (response holds the answer): the check of transcribing:{sid} and its
\* setex run without an await between them; an accepted request stores the
\* processing entry and adds transcribe_async as a background task
transcribe_audio_request(s, participant_count) ==
    IF ~TranscribeAccepted(s)
    THEN /\ response' = [response EXCEPT ![s] = [op |-> "transcribe", code |-> 409,
                                                 claimed |-> {}, body |-> ""]]
         /\ UNCHANGED <<upload_session, part_objects, final_object, upload_progress,
                        transcription, redis_keys, queue, proc, stage_failed,
                        redelivered, uploads, transcript, backend, auth>>
    ELSE /\ \E slot \in TaskSlots :
              /\ proc[slot].pc = "idle"
              /\ proc' = [proc EXCEPT
                            ![slot] = [IdleProc EXCEPT
                                         !.pc = "ta_cp", !.i = 1, !.sid = s,
                                         !.participant_count = participant_count]]
         /\ redis_keys' = redis_keys \cup {<<"transcribing", s>>}
         /\ transcription' = [transcription EXCEPT
                                ![s] = [status |-> "processing",
                                        progress |-> TRANSCRIBE_START,
                                        result |-> "none"]]
         /\ response' = [response EXCEPT ![s] = [op |-> "transcribe", code |-> 200,
                                                 claimed |-> {}, body |-> ""]]
         /\ UNCHANGED <<upload_session, part_objects, final_object, upload_progress,
                        queue, stage_failed, redelivered, uploads, transcript, backend, auth>>

\* process_video_async: the progress checkpoints 10, 25, 40, 60. video_metadata is
\* stored before 25; extract_audio runs before 40 and its failure is only logged.
VP_checkpoint(audio_ok) ==
    /\ proc["vp"].pc = "cp"
    /\ LET s == proc["vp"].sid
           i == proc["vp"].i
       IN /\ (i # 3 => audio_ok)
          /\ update_progress(s, VP_CHECKPOINTS[i], "processing")
          /\ redis_keys' = IF i = 2 THEN redis_keys \cup {<<"video_metadata", s>>}
                           ELSE redis_keys
          /\ stage_failed' = IF ~audio_ok THEN stage_failed \cup {s} ELSE stage_failed
          /\ proc' = [proc EXCEPT
                        !["vp"] = [@ EXCEPT
                                     !.capability_ok = @ /\ audio_ok,
                                     !.pc = IF i = Len(VP_CHECKPOINTS) THEN "send" ELSE "cp",
                                     !.i = IF i = Len(VP_CHECKPOINTS) THEN 0 ELSE i + 1]]
    /\ UNCHANGED <<upload_session, part_objects, final_object, queue, response,
                   redelivered, uploads, transcript, backend, auth>>

\* send_to_whisper_service: opening the enhanced audio fails when extraction
\* failed, and a response other than 200 raises; both reach the except clause of
\* process_video_async.
VP_send_to_whisper_service ==
    /\ proc["vp"].pc = "send"
    /\ LET s == proc["vp"].sid
       IN IF proc["vp"].capability_ok /\ TranscribeAccepted(s)
          THEN transcribe_audio_endpoint(s, proc["vp"].participant_count)
          ELSE /\ proc' = [proc EXCEPT !["vp"] = [@ EXCEPT !.pc = "err_progress"]]
               /\ UNCHANGED <<redis_keys, transcription>>
    /\ UNCHANGED <<upload_session, part_objects, final_object, upload_progress, queue,
                   response, stage_failed, redelivered, uploads, transcript, backend, auth>>

\* except clause of process_video_async: progress 0 with status "error" ...
VP_error_progress ==
    /\ proc["vp"].pc = "err_progress"
    /\ update_progress(proc["vp"].sid, 0, "error")
    /\ proc' = [proc EXCEPT !["vp"] = [@ EXCEPT !.pc = "err_store"]]
    /\ UNCHANGED <<upload_session, part_objects, final_object, redis_keys, queue,
                   response, stage_failed, redelivered, uploads, transcript, backend, auth>>

\* ... then processing_error:{sid} is stored and the exception is re-raised into
\* process_upload_message
VP_error_store ==
    /\ proc["vp"].pc = "err_store"
    /\ redis_keys' = redis_keys \cup {<<"processing_error", proc["vp"].sid>>}
    /\ proc' = [proc EXCEPT !["vp"] = [@ EXCEPT !.pc = "ack"]]
    /\ UNCHANGED <<upload_session, part_objects, final_object, upload_progress,
                   transcription, queue, response, stage_failed, redelivered, uploads, transcript, backend, auth>>

\* process_upload_message acknowledges: after process_video_async returned, or in
\* its except clause.
VP_ack ==
    /\ proc["vp"].pc = "ack"
    /\ proc' = [proc EXCEPT !["vp"] = BasicAck("vp")]
    /\ UNCHANGED <<upload_session, part_objects, final_object, upload_progress,
                   transcription, redis_keys, queue, response, stage_failed,
                   redelivered, uploads, transcript, backend, auth>>

\* ------------------------------------------------------ whisper-transcriber

\* the processes that run transcribe_async: the queue consumer and the background
\* tasks started by POST /transcribe
TAProcs == {"wt"} \cup TaskSlots

\* where transcribe_async returns to
TA_return(p) == IF p = "wt" THEN [proc[p] EXCEPT !.pc = "ack"] ELSE IdleProc

\* where an exception raised by transcribe_async lands: the consumer's handler
\* reports the failure once more, a background task just ends
TA_raise(p) == IF p = "wt" THEN [proc[p] EXCEPT !.pc = "wt_err"] ELSE IdleProc

\* process_upload_message of the whisper service, up to the start of
\* transcribe_async. participant_count comes from metadata keys that no service
\* writes, so it is the default 2.
WT_process_upload_message(download_ok) ==
    /\ proc["wt"].pc = "recv"
    /\ LET m == proc["wt"].msg
       IN IF m.kind # "ok" \/ ~m.media
          THEN /\ proc' = [proc EXCEPT !["wt"] = BasicAck("wt")]
               /\ UNCHANGED stage_failed
          ELSE IF ~(download_ok /\ final_object[m.session_id].exists)
          THEN /\ proc' = [proc EXCEPT !["wt"] = BasicAck("wt")]
               /\ stage_failed' = stage_failed \cup {m.session_id}
          ELSE /\ proc' = [proc EXCEPT !["wt"] = [@ EXCEPT !.pc = "ta_cp", !.i = 1,
                                                           !.sid = m.session_id,
                                                           !.participant_count = 2]]
               /\ UNCHANGED stage_failed
    /\ UNCHANGED <<upload_session, part_objects, final_object, upload_progress,
                   transcription, redis_keys, queue, response, redelivered, uploads, transcript, backend, auth>>

\* transcribe_async: the progress checkpoints 65, 70, 75, 80, 85, 90.
\* transcribe_audio runs before 80; when the inference raises it returns a
\* segment whose text reports the failure. 85 is sent when participant_count > 1.
TA_checkpoint(p, infer_ok) ==
    /\ p \in TAProcs
    /\ proc[p].pc = "ta_cp"
    /\ LET s == proc[p].sid
           i == proc[p].i
           next == IF i = 4 /\ proc[p].participant_count <= 1 THEN 6 ELSE i + 1
       IN /\ (i # 4 => infer_ok)
          /\ update_progress(s, TA_CHECKPOINTS[i], "processing")
          /\ stage_failed' = IF ~infer_ok THEN stage_failed \cup {s} ELSE stage_failed
          /\ proc' = [proc EXCEPT
                        ![p] = [@ EXCEPT
                                  !.capability_ok = @ /\ infer_ok,
                                  !.pc = IF i = Len(TA_CHECKPOINTS) THEN "ta_store"
                                         ELSE "ta_cp",
                                  !.i = IF i = Len(TA_CHECKPOINTS) THEN 0 ELSE next]]
    /\ UNCHANGED <<upload_session, part_objects, final_object, redis_keys, queue,
                   response, redelivered, uploads, transcript, backend, auth>>

\* format_transcription_result, then transcription:{sid} is stored as completed
\* with progress 100; an exception while formatting is re-raised.
TA_store(p, format_ok) ==
    /\ p \in TAProcs
    /\ proc[p].pc = "ta_store"
    /\ LET s == proc[p].sid
       IN IF format_ok
          THEN /\ transcription' =
                    [transcription EXCEPT
                       ![s] = [status |-> "completed", progress |-> TRANSCRIBE_DONE,
                               result |-> IF proc[p].capability_ok THEN "transcript"
                                          ELSE "failure_text"]]
               /\ proc' = [proc EXCEPT ![p] = [@ EXCEPT !.pc = "ta_95"]]
               /\ UNCHANGED stage_failed
          ELSE /\ proc' = [proc EXCEPT ![p] = [@ EXCEPT !.pc = "ta_err_progress"]]
               /\ stage_failed' = stage_failed \cup {s}
               /\ UNCHANGED transcription
    /\ UNCHANGED <<upload_session, part_objects, final_object, upload_progress,
                   redis_keys, queue, response, redelivered, uploads, transcript, backend, auth>>

\* "Sending for analysis...": progress 95 with status "processing"
TA_analysis_progress(p) ==
    /\ p \in TAProcs
    /\ proc[p].pc = "ta_95"
    /\ update_progress(proc[p].sid, ANALYSIS_PROGRESS, "processing")
    /\ proc' = [proc EXCEPT ![p] = [@ EXCEPT !.pc = "ta_llm"]]
    /\ UNCHANGED <<upload_session, part_objects, final_object, redis_keys, queue,
                   response, stage_failed, redelivered, uploads, transcript, backend, auth>>

\* send_to_llm_service: POST /process-transcript stores llm_analysis:{sid}; a failure
\* of the LLM service is logged and ignored.
TA_send_to_llm_service(p, llm_ok) ==
    /\ p \in TAProcs
    /\ proc[p].pc = "ta_llm"
    /\ redis_keys' = IF llm_ok THEN redis_keys \cup {<<"llm_analysis", proc[p].sid>>}
                     ELSE redis_keys
    /\ proc' = [proc EXCEPT ![p] = [@ EXCEPT !.pc = "ta_100"]]
    /\ UNCHANGED <<upload_session, part_objects, final_object, upload_progress,
                   transcription, queue, response, stage_failed, redelivered, uploads, transcript, backend, auth>>

\* "Transcription complete!": progress 100 with status "completed"
TA_complete(p) ==
    /\ p \in TAProcs
    /\ proc[p].pc = "ta_100"
    /\ update_progress(proc[p].sid, 100, "completed")
    /\ proc' = [proc EXCEPT ![p] = TA_return(p)]
    /\ UNCHANGED <<upload_session, part_objects, final_object, redis_keys, queue,
                   response, stage_failed, redelivered, uploads, transcript, backend, auth>>

\* except clause of transcribe_async: progress 0 with status "error" ...
TA_error_progress(p) ==
    /\ p \in TAProcs
    /\ proc[p].pc = "ta_err_progress"
    /\ update_progress(proc[p].sid, 0, "error")
    /\ proc' = [proc EXCEPT ![p] = [@ EXCEPT !.pc = "ta_err_store"]]
    /\ UNCHANGED <<upload_session, part_objects, final_object, redis_keys, queue,
                   response, stage_failed, redelivered, uploads, transcript, backend, auth>>

\* ... then transcription_error:{sid} is stored and the exception is re-raised
TA_error_store(p) ==
    /\ p \in TAProcs
    /\ proc[p].pc = "ta_err_store"
    /\ redis_keys' = redis_keys \cup {<<"transcription_error", proc[p].sid>>}
    /\ proc' = [proc EXCEPT ![p] = TA_raise(p)]
    /\ UNCHANGED <<upload_session, part_objects, final_object, upload_progress,
                   transcription, queue, response, stage_failed, redelivered, uploads, transcript, backend, auth>>

\* process_upload_message catches the exception of transcribe_async and sends
\* progress 0 with status "error" again
WT_error_progress ==
    /\ proc["wt"].pc = "wt_err"
    /\ update_progress(proc["wt"].sid, 0, "error")
    /\ proc' = [proc EXCEPT !["wt"] = [@ EXCEPT !.pc = "ack"]]
    /\ UNCHANGED <<upload_session, part_objects, final_object, redis_keys, queue,
                   response, stage_failed, redelivered, uploads, transcript, backend, auth>>

\* process_upload_message acknowledges after transcribe_async returned or failed
WT_ack ==
    /\ proc["wt"].pc = "ack"
    /\ proc' = [proc EXCEPT !["wt"] = BasicAck("wt")]
    /\ UNCHANGED <<upload_session, part_objects, final_object, upload_progress,
                   transcription, redis_keys, queue, response, stage_failed,
                   redelivered, uploads, transcript, backend, auth>>

\* GET /transcription/{session_id}: the error record when transcription_error:{sid}
\* exists; else the stored entry (body is its result); else "processing" while
\* transcribing:{sid} is set; else 404
get_transcription(s) ==
    /\ response' =
         [response EXCEPT
            ![s] = IF HasKey("transcription_error", s)
                   THEN [op |-> "get_transcription", code |-> 200, claimed |-> {},
                         body |-> "error"]
                   ELSE IF transcription[s].status # "absent"
                   THEN [op |-> "get_transcription", code |-> 200, claimed |-> {},
                         body |-> transcription[s].result]
                   ELSE IF HasKey("transcribing", s)
                   THEN [op |-> "get_transcription", code |-> 200, claimed |-> {},
                         body |-> "processing"]
                   ELSE [op |-> "get_transcription", code |-> 404, claimed |-> {},
                         body |-> ""]]
    /\ UNCHANGED <<upload_session, part_objects, final_object, upload_progress,
                   transcription, redis_keys, queue, proc, stage_failed, redelivered,
                   uploads, transcript, backend, auth>>

\* ------------------------------------------------- speakers of a transcript

Min(a, b) == IF a <= b THEN a ELSE b

\* mock_diarize_speakers: int(duration / 5.0) + 1 turns of 5 seconds, the last one
\* cut at the duration, labelled in rotation
mock_diarize_speakers(duration, number_of_speakers) ==
    LET num_segments == duration \div SEGMENT_LENGTH + 1
    IN [k \in 1..num_segments |->
          [start |-> (k - 1) * SEGMENT_LENGTH,
           end |-> Min(k * SEGMENT_LENGTH, duration),
           speaker |-> SpeakerLabel((k - 1) % number_of_speakers)]]

\* the scan of assign_speakers_to_segments over the turns: the first turn with
\* start <= segment_center <= end; center2 is twice the centre
RECURSIVE FindTurn(_, _)
FindTurn(center2, diarize_data) ==
    IF diarize_data = <<>> THEN ""
    ELSE IF 2 * Head(diarize_data).start <= center2
              /\ center2 <= 2 * Head(diarize_data).end
         THEN Head(diarize_data).speaker
         ELSE FindTurn(center2, Tail(diarize_data))

\* assign_speakers_to_segments with mocked turns
assign_speakers_to_segments(segments, diarize_data) ==
    [i \in DOMAIN segments |->
       LET found == FindTurn(segments[i].start + segments[i].end, diarize_data)
           speaker == IF found # "" THEN found
                      ELSE IF segments[i].speaker = "" THEN "SPEAKER_0"
                      ELSE segments[i].speaker
       IN [segments[i] EXCEPT !.speaker = speaker]]

\* name.strip() for the names of SpeakerNameLists
Strip(name) == IF name = " " THEN "" ELSE name

\* the speaker_map map_speaker_names builds: SPEAKER_{i} for the position i
\* (counted from 0) of every name that is not empty after strip()
NamedPositions(speaker_names) ==
    {i \in DOMAIN speaker_names : speaker_names[i] # "" /\ Strip(speaker_names[i]) # ""}

\* map_speaker_names that leaves a segment without a mapped label as it is
map_speaker_names_mapped_only(segments, speaker_names) ==
    IF speaker_names = <<>> THEN segments
    ELSE [k \in DOMAIN segments |->
            LET segment == segments[k]
                named == {i \in NamedPositions(speaker_names) :
                            SpeakerLabel(i - 1) = segment.speaker}
            IN IF segment.speaker # "" /\ named # {}
               THEN [segment EXCEPT !.speaker_name = speaker_names[CHOOSE i \in named : TRUE]]
               ELSE segment]

\* map_speaker_names: a segment with a speaker key gets the name mapped to its
\* label, or the label itself when the label is not in the map
map_speaker_names(segments, speaker_names) ==
    IF speaker_names = <<>> THEN segments
    ELSE [k \in DOMAIN segments |->
            LET segment == segments[k]
                named == {i \in NamedPositions(speaker_names) :
                            SpeakerLabel(i - 1) = segment.speaker}
            IN IF segment.speaker = "" THEN segment
               ELSE IF named # {}
               THEN [segment EXCEPT !.speaker_name = speaker_names[CHOOSE i \in named : TRUE]]
               ELSE [segment EXCEPT !.speaker_name = segment.speaker]]

\* format_transcription_result: the segments and their display list, which
\* carries the display name as speaker
format_transcription_result(segments) ==
    [segments |-> segments,
     diarized_segments |->
       [i \in DOMAIN segments |->
          LET speaker == IF segments[i].speaker = "" THEN "SPEAKER_0"
                         ELSE segments[i].speaker
          IN [speaker |-> IF segments[i].speaker_name = "" THEN speaker
                          ELSE segments[i].speaker_name,
              start |-> segments[i].start, end |-> segments[i].end,
              text |-> segments[i].text]]]

\* update_speaker_names that drops the segments whose speaker is not in the map
update_speaker_names_drop(entry, speaker_map) ==
    [entry EXCEPT
       !.segments = SelectSeq(@, LAMBDA seg : seg.speaker \in DOMAIN speaker_map),
       !.diarized_segments = SelectSeq(@, LAMBDA seg : seg.speaker \in DOMAIN speaker_map)]

\* update_speaker_names: the top-level keys "segments" and "diarized_segments" of
\* the entry are rewritten; an entry stored by transcribe_async keeps its lists
\* under transcriptData and has neither key
update_speaker_names(entry, speaker_map) ==
    LET Mapped(segment) == segment.speaker # "" /\ segment.speaker \in DOMAIN speaker_map
    IN [entry EXCEPT
          !.segments =
             [i \in DOMAIN entry.segments |->
                LET segment == entry.segments[i]
                IN IF Mapped(segment)
                   THEN [segment EXCEPT !.speaker_name = speaker_map[segment.speaker]]
                   ELSE segment],
          !.diarized_segments =
             [i \in DOMAIN entry.diarized_segments |->
                LET segment == entry.diarized_segments[i]
                IN IF Mapped(segment)
                   THEN [segment EXCEPT !.speaker = speaker_map[segment.speaker]]
                   ELSE segment]]

\* the variables the speaker functions leave alone
pipeline_vars == <<upload_session, part_objects, final_object, upload_progress,
                   transcription, redis_keys, queue, proc, response, stage_failed,
                   redelivered, uploads, backend, auth>>

\* transcribe_async up to the diarization: the inference has returned its segments
Transcribe(result, duration, participant_count) ==
    /\ transcript.phase = "none"
    /\ \A i \in DOMAIN result : result[i][2] <= duration
    /\ transcript' = [NoTranscript EXCEPT
                        !.phase = "transcribed",
                        !.duration = duration,
                        !.participant_count = participant_count,
                        !.segments = [i \in DOMAIN result |->
                                        Segment(result[i][1], result[i][2],
                                                SegmentTexts[i])]]
    /\ UNCHANGED pipeline_vars

\* transcribe_async when the model failed to load or the inference raised:
\* transcribe_audio returns one segment from 0 to 10 seconds that already carries
\* the speaker "SPEAKER_00", whatever the duration of the audio
TranscribeMock(duration, participant_count) ==
    /\ transcript.phase = "none"
    /\ transcript' = [NoTranscript EXCEPT
                        !.phase = "transcribed",
                        !.duration = duration,
                        !.participant_count = participant_count,
                        !.segments = <<[Segment(0, MOCK_SEGMENT_END, "mock") EXCEPT
                                          !.speaker = "SPEAKER_00"]>>]
    /\ UNCHANGED pipeline_vars

\* diarize_speakers with the mock model, for the adjusted speaker count
Diarize ==
    /\ transcript.phase = "transcribed"
    /\ transcript.participant_count > 1
    /\ LET adjusted_count == Max(MIN_SPEAKERS,
                                 Min(transcript.participant_count, MAX_SPEAKERS))
       IN transcript' = [transcript EXCEPT
                           !.phase = "diarized",
                           !.turns = mock_diarize_speakers(transcript.duration,
                                                           adjusted_count)]
    /\ UNCHANGED pipeline_vars

AssignSpeakers ==
    /\ transcript.phase = "diarized"
    /\ transcript' = [transcript EXCEPT
                        !.phase = "assigned",
                        !.segments = assign_speakers_to_segments(transcript.segments,
                                                                 transcript.turns)]
    /\ UNCHANGED pipeline_vars

\* transcribe_async after the assignment, when speaker_names were given
MapSpeakerNames(speaker_names) ==
    /\ transcript.phase = "assigned"
    /\ transcript' = [transcript EXCEPT
                        !.phase = "named",
                        !.speaker_names = speaker_names,
                        !.segments = map_speaker_names(transcript.segments,
                                                       speaker_names)]
    /\ UNCHANGED pipeline_vars

\* transcribe_async stores the formatted result as the completed entry
StoreResult ==
    /\ transcript.phase \in {"transcribed", "assigned", "named"}
    /\ transcript.phase = "transcribed" => transcript.participant_count <= 1
    /\ transcript' = [transcript EXCEPT
                        !.phase = "stored",
                        !.entry = [NoEntry EXCEPT
                                     !.status = "completed",
                                     !.transcriptData =
                                        format_transcription_result(transcript.segments)]]
    /\ UNCHANGED pipeline_vars

\* entries a client stores with POST /api/v1/immediate-transcription: the body is
\* stored as it is, here with its segments under the top-level keys
ClientEntries ==
    {[NoEntry EXCEPT
        !.status = status,
        !.segments = <<[Segment(0, 3, "t1") EXCEPT !.speaker = "SPEAKER_0"],
                       [Segment(3, 5, "t2") EXCEPT !.speaker = "SPEAKER_1"]>>,
        !.diarized_segments =
           <<[speaker |-> "SPEAKER_0", start |-> 0, end |-> 3, text |-> "t1"],
             [speaker |-> "SPEAKER_1", start |-> 3, end |-> 5, text |-> "t2"]>>]
     : status \in {"uploading", "completed"}}

StoreClientEntry(data) ==
    /\ transcript.phase = "none"
    /\ transcript' = [transcript EXCEPT !.phase = "stored", !.entry = data]
    /\ UNCHANGED pipeline_vars

\* POST /transcription/{session_id}/speakers
UpdateSpeakerNames(speaker_map) ==
    /\ transcript.phase = "stored"
    /\ transcript.remaps < MaxRemaps
    /\ transcript' = [transcript EXCEPT
                        !.entry = update_speaker_names(transcript.entry, speaker_map),
                        !.remaps = @ + 1]
    /\ UNCHANGED pipeline_vars

\* ------------------------------------------------------------- backend API

\* the variables the backend API leaves alone
service_vars == <<upload_session, part_objects, final_object, upload_progress,
                  transcription, redis_keys, queue, proc, response, stage_failed,
                  redelivered, uploads, transcript, auth>>

\* POST /api/upload/video: a file with a video extension is saved, the background
\* task is added and the answer is "processing" with the upload_id; the 400 for
\* another extension is caught by the handler's except clause and answered 500
upload_video(languages, extension_ok) ==
    /\ backend.phase = "none"
    /\ backend' = IF extension_ok
                  THEN [backend EXCEPT !.phase = "accepted", !.languages = languages]
                  ELSE [backend EXCEPT !.phase = "refused"]
    /\ UNCHANGED service_vars

\* process_uploaded_video that also translates into English
process_uploaded_video_all_languages(stages_ok) ==
    /\ backend.phase = "accepted"
    /\ backend' = IF stages_ok
                  THEN [backend EXCEPT
                          !.phase = "done",
                          !.result = [transcript |-> "transcript",
                                      summary |-> "summary",
                                      translations |-> backend.languages],
                          !.result_file = "written"]
                  ELSE [backend EXCEPT !.phase = "done", !.error_log = TRUE]
    /\ UNCHANGED service_vars

\* process_uploaded_video, the background task: audio extraction, transcription,
\* summary, the translations for every requested language but "en", and
\* result.json; an exception (the audio extraction fails) writes error.log. The
\* task is a coroutine without an await, so no request is served while it runs.
process_uploaded_video(stages_ok) ==
    /\ backend.phase = "accepted"
    /\ backend' = IF stages_ok
                  THEN [backend EXCEPT
                          !.phase = "done",
                          !.result = [transcript |-> "transcript",
                                      summary |-> "summary",
                                      translations |-> backend.languages \ {"en"}],
                          !.result_file = "written"]
                  ELSE [backend EXCEPT !.phase = "done", !.error_log = TRUE]
    /\ UNCHANGED service_vars

\* GET /api/upload/status/{upload_id}: "completed" when result.json exists, else
\* "failed" when error.log exists, else "processing"
backend_get_upload_status ==
    /\ backend.phase \notin {"none", "refused"}
    /\ backend' = [backend EXCEPT
                     !.status = IF backend.result_file # "absent" THEN "completed"
                                ELSE IF backend.error_log THEN "failed"
                                ELSE "processing"]
    /\ UNCHANGED service_vars

\* GET /api/upload/result/{upload_id}: the content of result.json, or 404
get_upload_result ==
    /\ backend.phase \notin {"none", "refused"}
    /\ backend' = [backend EXCEPT
                     !.result_code = IF backend.result_file = "absent" THEN 404
                                     ELSE 200,
                     !.result_body = IF backend.result_file = "absent" THEN NoResult
                                     ELSE backend.result]
    /\ UNCHANGED service_vars

\* ------------------------------------------------------------ auth service

\* the variables the auth service leaves alone
other_vars == <<upload_session, part_objects, final_object, upload_progress,
                transcription, redis_keys, queue, proc, response, stage_failed,
                redelivered, uploads, transcript, backend>>

\* row.id of the users row of an email
RowId(a, email) == [type |-> a.id_type, value |-> email]

\* str(row.id)
Str(id) == [type |-> "text", value |-> id.value]

\* create_admin_user in the lifespan of the service: the admin account of the
\* environment is inserted when it does not exist
create_admin_user(id_type) ==
    /\ ~auth.started
    /\ auth' = [auth EXCEPT !.started = TRUE, !.id_type = id_type,
                            !.users[ADMIN_EMAIL] = "admin"]
    /\ UNCHANGED other_vars

\* get_current_admin_user: 401 when the email of the token has no users row, 403
\* when the row is not an admin
Authorize(a, actor) ==
    IF a.users[actor] = "none" THEN 401
    ELSE IF a.users[actor] # "admin" THEN 403
    ELSE 200

Answer(a, op, code) == [a EXCEPT !.op = op, !.code = code]

\* POST /api/v1/auth/request-access: 400 when the email has a users row or an
\* access request of any status; otherwise the request is inserted as pending
request_access(email) ==
    /\ auth.started
    /\ auth' = IF auth.users[email] # "none" \/ auth.requests[email] # "none"
               THEN Answer(auth, "request_access", 400)
               ELSE Answer([auth EXCEPT !.requests[email] = "pending"],
                           "request_access", 201)
    /\ UNCHANGED other_vars

\* POST /api/v1/admin/access-requests/{request_id}/approve: the request is
\* selected with status = 'pending' (404 otherwise), the users row is inserted as
\* a non-admin (400 on an IntegrityError) and the request is set to approved
approve_request(actor, email) ==
    /\ auth.started
    /\ auth' = IF Authorize(auth, actor) # 200
               THEN Answer(auth, "approve", Authorize(auth, actor))
               ELSE IF auth.requests[email] # "pending"
               THEN Answer(auth, "approve", 404)
               ELSE IF auth.users[email] # "none"
               THEN Answer(auth, "approve", 400)
               ELSE Answer([auth EXCEPT !.users[email] = "user",
                                        !.requests[email] = "approved"],
                           "approve", 200)
    /\ UNCHANGED other_vars

\* reject_request whose UPDATE has no status condition
reject_request_any_status(actor, email) ==
    /\ auth.started
    /\ auth' = IF Authorize(auth, actor) # 200
               THEN Answer(auth, "reject", Authorize(auth, actor))
               ELSE IF auth.requests[email] = "none"
               THEN Answer(auth, "reject", 404)
               ELSE Answer([auth EXCEPT !.requests[email] = "rejected"], "reject", 200)
    /\ UNCHANGED other_vars

\* POST /api/v1/admin/access-requests/{request_id}/reject: UPDATE ... WHERE
\* id = :id AND status = 'pending'; 404 when no row was updated
reject_request(actor, email) ==
    /\ auth.started
    /\ auth' = IF Authorize(auth, actor) # 200
               THEN Answer(auth, "reject", Authorize(auth, actor))
               ELSE IF auth.requests[email] # "pending"
               THEN Answer(auth, "reject", 404)
               ELSE Answer([auth EXCEPT !.requests[email] = "rejected"], "reject", 200)
    /\ UNCHANGED other_vars

\* user.id == admin_user.id, where admin_user.id is str(row.id) of the caller
SameUser(a, target, actor) == RowId(a, target) = Str(RowId(a, actor))

\* POST /api/v1/admin/users/{user_id}/toggle-admin
toggle_user_admin_status(actor, target) ==
    /\ auth.started
    /\ auth' = IF Authorize(auth, actor) # 200
               THEN Answer(auth, "toggle_admin", Authorize(auth, actor))
               ELSE IF auth.users[target] = "none"
               THEN Answer(auth, "toggle_admin", 404)
               ELSE IF SameUser(auth, target, actor)
               THEN Answer(auth, "toggle_admin", 400)
               ELSE Answer([auth EXCEPT
                              !.users[target] = IF auth.users[target] = "admin"
                                                THEN "user" ELSE "admin"],
                           "toggle_admin", 200)
    /\ UNCHANGED other_vars

\* DELETE /api/v1/admin/users/{user_id}; the access request of the email stays
delete_user(actor, target) ==
    /\ auth.started
    /\ auth' = IF Authorize(auth, actor) # 200
               THEN Answer(auth, "delete_user", Authorize(auth, actor))
               ELSE IF auth.users[target] = "none"
               THEN Answer(auth, "delete_user", 404)
               ELSE IF SameUser(auth, target, actor)
               THEN Answer(auth, "delete_user", 400)
               ELSE Answer([auth EXCEPT !.users[target] = "none"], "delete_user", 200)
    /\ UNCHANGED other_vars

\* ----------------------------------------------------------- specification

Init ==
    /\ upload_session = [s \in Sessions |-> NoSession]
    /\ part_objects = [s \in Sessions |-> {}]
    /\ final_object = [s \in Sessions |-> NoObject]
    /\ upload_progress = [s \in Sessions |-> NoProgress]
    /\ transcription = [s \in Sessions |-> NoTranscription]
    /\ redis_keys = {}
    /\ queue \in InitialQueues
    /\ proc = [p \in Procs |-> IdleProc]
    /\ response = [s \in Sessions |-> NoResponse]
    /\ stage_failed = {}
    /\ redelivered = 0
    /\ uploads = [r \in UploadSlots |-> NoUpload]
    /\ transcript = NoTranscript
    /\ backend = NoBackend
    /\ auth = NoAuth

\* The client of the pipeline uploads its parts in ascending order, then
\* completes with the parts it uploaded, and uploads nothing more for that
\* session. (UploadSpec below drops these restrictions.)
Uploading(s) == ~upload_session[s].upload_complete

NextPart(s) == Len(upload_session[s].parts) + 1

Next ==
    \/ \E s \in Sessions, request \in UploadRequests : initialize_upload(s, request)
    \/ \E s \in Sessions : Uploading(s) /\ upload_part(s, NextPart(s))
    \/ \E s \in Sessions, broker_up \in BOOLEAN :
          Uploading(s) /\ complete_upload(s, Range(upload_session[s].parts), broker_up)
    \/ \E s \in Sessions : create_immediate_transcription(s)
    \/ \E w \in Workers : Deliver(w)
    \/ \E w \in Workers : Redeliver(w)
    \/ \E download_ok \in BOOLEAN : VP_process_upload_message(download_ok)
    \/ \E audio_ok \in BOOLEAN : VP_checkpoint(audio_ok)
    \/ VP_send_to_whisper_service
    \/ VP_error_progress
    \/ VP_error_store
    \/ VP_ack
    \/ \E download_ok \in BOOLEAN : WT_process_upload_message(download_ok)
    \/ \E p \in TAProcs, infer_ok \in BOOLEAN : TA_checkpoint(p, infer_ok)
    \/ \E p \in TAProcs, format_ok \in BOOLEAN : TA_store(p, format_ok)
    \/ \E p \in TAProcs : TA_analysis_progress(p)
    \/ \E p \in TAProcs, llm_ok \in BOOLEAN : TA_send_to_llm_service(p, llm_ok)
    \/ \E p \in TAProcs : TA_complete(p)
    \/ \E p \in TAProcs : TA_error_progress(p)
    \/ \E p \in TAProcs : TA_error_store(p)
    \/ WT_error_progress
    \/ WT_ack

Spec == Init /\ [][Next]_vars

\* The file-uploader alone, with a client that sends any part number in any order,
\* any part list with the completion request, and may repeat every request.
UploadNext ==
    \/ \E s \in Sessions, request \in UploadRequests : initialize_upload(s, request)
    \/ \E s \in Sessions, part_number \in PartNumbers : upload_part(s, part_number)
    \/ \E s \in Sessions, claimed \in ClaimedParts, broker_up \in BOOLEAN :
          complete_upload(s, claimed, broker_up)
    \/ \E s \in Sessions : create_immediate_transcription(s)
    \/ \E s \in Sessions : get_upload_status(s)
    \/ \E s \in Sessions, part_number \in PartNumbers :
          get_presigned_upload_url(s, part_number)
    \/ \E s \in Sessions, broker_up \in BOOLEAN :
          Len(queue) < MaxQueue /\ direct_upload_file(s, broker_up)

UploadSpec == Init /\ [][UploadNext]_vars

\* The file-uploader with two upload_part requests of one client in flight together.
ConcurrentNext ==
    \/ \E s \in Sessions, request \in UploadRequests : initialize_upload(s, request)
    \/ \E r \in UploadSlots, s \in Sessions, part_number \in PartNumbers :
          upload_part_read(r, s, part_number)
    \/ \E r \in UploadSlots : upload_part_write(r)

ConcurrentSpec == Init /\ [][ConcurrentNext]_vars

\* The pipeline with a client that may delete the transcript of a session at any
\* moment; what follows a deletion is left out.
Deleted == \E s \in Sessions : response[s].op = "delete" /\ response[s].code = 200

DeleteNext ==
    \/ \E s \in Sessions, object_named \in BOOLEAN :
          ~Deleted /\ delete_transcript(s, object_named)
    \/ ~Deleted /\ Next

DeleteInit == Init /\ queue = <<>>

DeleteSpec == DeleteInit /\ [][DeleteNext]_vars

\* One upload through the backend API, with a client that polls the status and the
\* result at any moment.
BackendNext ==
    \/ \E languages \in LanguageLists, extension_ok \in BOOLEAN :
          upload_video(languages, extension_ok)
    \/ \E stages_ok \in BOOLEAN : process_uploaded_video(stages_ok)
    \/ backend_get_upload_status
    \/ get_upload_result

BackendInit == Init /\ queue = <<>>

BackendSpec == BackendInit /\ [][BackendNext]_vars

\* The speaker handling of one transcription: inference result, diarization,
\* assignment, the stored entry and its later renaming.
SpeakerNext ==
    \/ \E result \in TranscriptionResults, duration \in 1..MaxDuration,
          participant_count \in 1..MaxSpeakers :
          Transcribe(result, duration, participant_count)
    \/ \E duration \in 1..MaxDuration, participant_count \in 1..MaxSpeakers :
          TranscribeMock(duration, participant_count)
    \/ Diarize
    \/ AssignSpeakers
    \/ StoreResult
    \/ \E data \in ClientEntries : StoreClientEntry(data)
    \/ \E speaker_map \in SpeakerMaps : UpdateSpeakerNames(speaker_map)

SpeakerInit == Init /\ queue = <<>>

SpeakerSpec == SpeakerInit /\ [][SpeakerNext]_vars

\* One run of transcribe_async with speaker_names given, on a short and on the
\* longest audio: inference result, diarization, assignment, the names and the
\* stored entry.
NameNext ==
    \/ \E result \in TranscriptionResults,
          duration \in {MaxDuration - SEGMENT_LENGTH, MaxDuration},
          participant_count \in 1..MaxSpeakers :
          Transcribe(result, duration, participant_count)
    \/ Diarize
    \/ AssignSpeakers
    \/ \E speaker_names \in SpeakerNameLists : MapSpeakerNames(speaker_names)
    \/ StoreResult

NameInit == Init /\ queue = <<>>

NameSpec == NameInit /\ [][NameNext]_vars

\* The progress records of a session: the parts of an upload, and callers of the
\* three progress endpoints of the file-uploader.
ProgressNext ==
    \/ \E s \in Sessions, request \in UploadRequests : initialize_upload(s, request)
    \/ \E s \in Sessions, part_number \in PartNumbers : upload_part(s, part_number)
    \/ \E s \in Sessions : create_immediate_transcription(s)
    \/ \E s \in Sessions, progress \in ProgressValues, status \in ProgressStatuses :
          post_update_progress(s, progress, status)
    \/ \E s \in Sessions, progress \in ProgressValues, status \in ProgressStatuses :
          update_progress_alt(s, progress, status)
    \/ \E s \in Sessions, status \in ProgressStatuses : handle_completion(s, status)

ProgressInit == Init /\ queue = <<>>

ProgressSpec == ProgressInit /\ [][ProgressNext]_vars

\* The whisper service with callers of POST /transcribe and a client that may
\* delete the transcript of the session.
TranscribeNext ==
    \/ \E s \in Sessions, participant_count \in 1..2 :
          transcribe_audio_request(s, participant_count)
    \/ \E s \in Sessions : delete_transcript(s, FALSE)
    \/ \E p \in TAProcs, infer_ok \in BOOLEAN : TA_checkpoint(p, infer_ok)
    \/ \E p \in TAProcs, format_ok \in BOOLEAN : TA_store(p, format_ok)
    \/ \E p \in TAProcs : TA_analysis_progress(p)
    \/ \E p \in TAProcs, llm_ok \in BOOLEAN : TA_send_to_llm_service(p, llm_ok)
    \/ \E p \in TAProcs : TA_complete(p)
    \/ \E p \in TAProcs : TA_error_progress(p)
    \/ \E p \in TAProcs : TA_error_store(p)

TranscribeInit == Init /\ queue = <<>>

TranscribeSpec == TranscribeInit /\ [][TranscribeNext]_vars

\* The pipeline with a client that reads the transcription of a session at any
\* moment.
ResultNext ==
    \/ \E s \in Sessions : get_transcription(s)
    \/ Next

ResultInit == Init /\ queue = <<>>

ResultSpec == ResultInit /\ [][ResultNext]_vars

\* The auth service: its start, people who request access, and holders of a
\* token who call the admin endpoints.
AuthNext ==
    \/ \E id_type \in IdTypes : create_admin_user(id_type)
    \/ \E email \in Emails : request_access(email)
    \/ \E actor \in Emails, email \in Emails : approve_request(actor, email)
    \/ \E actor \in Emails, email \in Emails : reject_request(actor, email)
    \/ \E actor \in Emails, target \in Emails : toggle_user_admin_status(actor, target)
    \/ \E actor \in Emails, target \in Emails : delete_user(actor, target)

AuthInit == Init /\ queue = <<>>

AuthSpec == AuthInit /\ [][AuthNext]_vars

\* ------------------------------------------------------------------ properties

\* The statuses that end a session: "completed", and "error", which is the status
\* the services send when a stage fails.
Terminal(status) == status \in {"completed", "error"}

\* the records a status read returns for a session
StatusReads(s) == {upload_progress[s], transcription[s]}

\* the error records of a session among the keys
ErrorRecords(keys, s) ==
    {k \in keys : k[2] = s /\ k[1] \in {"processing_error", "transcription_error"}}

\* a step in which the client creates the transcription entry of a session anew
ClientReset == \E s \in Sessions : create_immediate_transcription(s)

\* C1: once a status read of a session (progress record or transcription entry)
\* has reported completed or failed, every later read of it reports a terminal
\* status and a percent that is not lower, whatever progress updates, stage steps
\* and deliveries follow.
C1_TerminalMonotonic ==
    [][ClientReset \/
       \A s \in Sessions :
         /\ Terminal(upload_progress[s].status) =>
               /\ Terminal(upload_progress'[s].status)
               /\ upload_progress'[s].progress >= upload_progress[s].progress
         /\ Terminal(transcription[s].status) =>
               /\ Terminal(transcription'[s].status)
               /\ transcription'[s].progress >= transcription[s].progress]_vars

\* the part numbers recorded for a session are exactly 1..N for some N >= 1
RecordedExact(s) ==
    /\ upload_session[s].parts # <<>>
    /\ PartsConsecutive(SortParts(upload_session[s].parts))

\* C2: CompleteUpload succeeds if and only if the recorded part numbers are exactly
\* 1..N for some N >= 1 (no gap, no duplicate, no extra part).
C2_CompleteIffExactParts ==
    \A s \in Sessions :
        response[s].op = "complete" => (response[s].code = 200 <=> RecordedExact(s))

\* C3: CompleteUpload fails whenever the part numbers submitted with the request
\* differ from the part numbers recorded for the session.
C3_SubmittedMustMatchRecorded ==
    \A s \in Sessions :
        (response[s].op = "complete"
           /\ response[s].claimed # Range(upload_session[s].parts))
          => response[s].code # 200

\* C4: a CompleteUpload that reports success has put exactly one message on
\* video_processing_queue.
C4_OneMessagePerCompletion ==
    [][\A s \in Sessions, claimed \in ClaimedParts, broker_up \in BOOLEAN :
         (complete_upload(s, claimed, broker_up) /\ response'[s].code = 200)
           => Len(queue') = Len(queue) + 1]_vars

\* the result of a consumer's stage is stored for the session: video_metadata for
\* the video-processor, the transcription result for the whisper service
StageResultStored(w, s) ==
    IF w = "vp" THEN HasKey("video_metadata", s) ELSE transcription[s].result # "none"

\* a consumer is at the start of its handler with a redelivered stage message
\* that it would process (the whisper service drops non-media files)
HandlesDuplicate(w) ==
    /\ proc[w].msg.kind = "ok"
    /\ proc[w].msg.redelivered
    /\ (w = "wt" => proc[w].msg.media)

\* C5: a consumer that receives a stage message again, for a session whose stage
\* result is already stored, acknowledges it as its next step, without running the
\* stage and without changing the stored results.
C5_RedeliveryAbsorbed ==
    [][\A w \in Workers :
         (/\ proc[w].pc = "recv"
          /\ HandlesDuplicate(w)
          /\ StageResultStored(w, proc[w].msg.session_id)
          /\ proc'[w] # proc[w])
           => /\ proc'[w].pc = "idle"
              /\ proc'[w].settle = <<"ack">>
              /\ transcription' = transcription
              /\ redis_keys' = redis_keys]_vars

\* C6: however often the message of a session is delivered, the client sees what
\* it sees after one delivery: a session none of whose stages failed has no error
\* record and is not reported failed.
C6_DuplicateInvisible ==
    \A s \in Sessions \ stage_failed :
        /\ ErrorRecords(redis_keys, s) = {}
        /\ \A r \in StatusReads(s) : r.status # "error"

\* what the client sees after one delivery
SingleDeliveryOutcome == redelivered = 0 => C6_DuplicateInvisible

\* C7: a session one of whose stages failed, and whose message was delivered only
\* once, is never reported as completed.
C7_FailedStageNeverCompleted ==
    \A s \in stage_failed :
        redelivered = 0 => \A r \in StatusReads(s) : r.status # "completed"

\* C8: every delivery is settled exactly once, by an acknowledgement: a handler
\* has settled nothing while it runs, has acknowledged once when it returns, and
\* puts nothing back on the queue.
C8_AckedExactlyOnce ==
    [][\A w \in Workers :
         /\ proc'[w].pc # "idle" => proc'[w].settle = <<>>
         /\ (proc[w].pc # "idle" /\ proc'[w].pc = "idle") => proc'[w].settle = <<"ack">>
         /\ (proc[w].pc # "idle" /\ proc'[w] # proc[w]) => queue' = queue]_vars

\* the video-processor has acknowledged a message whose processing raised
C8_AckedAfterException ==
    /\ proc["vp"].pc = "idle"
    /\ proc["vp"].settle = <<"ack">>
    /\ \E s \in Sessions : HasKey("processing_error", s)

\* C9: while the status of a session is not terminal, the percent of its progress
\* record never decreases from one update to the next.
C9_PercentNeverDecreases ==
    [][ClientReset \/
       \A s \in Sessions :
         (/\ upload_progress[s].status # "absent"
          /\ ~Terminal(upload_progress[s].status)
          /\ ~Terminal(upload_progress'[s].status))
           => upload_progress'[s].progress >= upload_progress[s].progress]_vars

\* Position of a status in the order initializing, uploading, assembling,
\* processing, transcribing, analyzing, completed; a session without a record is
\* before all of them.
StatusRank(status) ==
    CASE status = "absent" -> 0
      [] status = "initializing" -> 1
      [] status = "uploading" -> 2
      [] status = "assembling" -> 3
      [] status = "processing" -> 4
      [] status = "transcribing" -> 5
      [] status = "analyzing" -> 6
      [] status = "completed" -> 7

\* a change of status from old to new that the order allows
ForwardMove(old, new) ==
    /\ (old # "error" /\ new # "error") => StatusRank(new) >= StatusRank(old)
    /\ (new = "error" /\ old # "error") => ~Terminal(old)

\* C10: the status of a session never moves to an earlier status of the order, and
\* becomes failed only from a non-terminal status.
C10_StatusMovesForward ==
    [][\A s \in Sessions :
         /\ ForwardMove(upload_progress[s].status, upload_progress'[s].status)
         /\ ForwardMove(transcription[s].status, transcription'[s].status)]_vars

\* C11: recording a part number again overwrites the earlier entry: the parts
\* recorded for a session hold at most one entry per part number.
C11_OneEntryPerPart ==
    \A s \in Sessions :
        LET parts == upload_session[s].parts
        IN \A i, j \in DOMAIN parts : parts[i] = parts[j] => i = j

\* C12: no interleaving of upload_part calls loses a part: every part whose
\* upload_part call has finished is among the parts recorded for the session.
C12_NoLostUpdate ==
    \A s \in Sessions : part_objects[s] \subseteq Range(upload_session[s].parts)

\* C13: a CompleteUpload that is rejected leaves the session record, the part
\* objects, the assembled object and the queue exactly as they were.
C13_RejectedCompleteMutatesNothing ==
    [][\A s \in Sessions, claimed \in ClaimedParts, broker_up \in BOOLEAN :
         (complete_upload(s, claimed, broker_up) /\ response'[s].code # 200)
           => UNCHANGED <<upload_session, part_objects, final_object, queue>>]_vars

\* a completion was rejected because a recorded part is no longer stored
C13_RejectedWithParts ==
    \E s \in Sessions :
        /\ response[s].op = "complete"
        /\ response[s].code = 500
        /\ upload_session[s].parts # <<>>

\* C14: after a successful CompleteUpload of a session whose recorded part numbers
\* are 1..N, the assembled object is parts 1..N in ascending order, each once, in
\* whatever order and however often the parts were uploaded.
C14_AssembledInOrderOnce ==
    \A s \in Sessions :
        LET recorded == Range(upload_session[s].parts)
        IN (/\ response[s].op = "complete"
            /\ response[s].code = 200
            /\ recorded = 1..Cardinality(recorded))
             => final_object[s].content = [k \in 1..Cardinality(recorded) |-> k]

\* C20: GetStatus answers not-found exactly for a session that was never
\* initialized.
C20_NotFoundIffNoSession ==
    \A s \in Sessions :
        response[s].op = "status"
          => (response[s].code = 404 <=> ~upload_session[s].exists)

\* C15: a transcript segment whose interval lies fully inside one diarization turn
\* [start, end) carries that turn's speaker label after the assignment.
C15_ContainedSegmentGetsTurnLabel ==
    transcript.phase = "assigned"
      => \A i \in DOMAIN transcript.segments, k \in DOMAIN transcript.turns :
            LET segment == transcript.segments[i]
                turn == transcript.turns[k]
            IN (turn.start <= segment.start /\ segment.end < turn.end)
                 => segment.speaker = turn.speaker

\* C16: the turns of the synthetic diarization of an audio of duration D partition
\* [0, D): the first starts at 0, each next one starts where the previous one
\* ends, the last ends at D, and no turn is empty.
C16_TurnsPartitionDuration ==
    transcript.turns # <<>>
      => LET turns == transcript.turns
         IN /\ turns[1].start = 0
            /\ \A k \in 2..Len(turns) : turns[k].start = turns[k - 1].end
            /\ turns[Len(turns)].end = transcript.duration
            /\ \A k \in DOMAIN turns : turns[k].start < turns[k].end

\* C17: the synthetic diarization labels its i-th turn (counted from 0) with
\* speaker i mod participant_count, and its labels are exactly participant_count
\* distinct values.
C17_LabelsCycleThroughAll ==
    transcript.turns # <<>>
      => LET turns == transcript.turns
             n == transcript.participant_count
         IN /\ \A k \in DOMAIN turns : turns[k].speaker = SpeakerLabel((k - 1) % n)
            /\ Cardinality({turns[k].speaker : k \in DOMAIN turns}) = n

\* the labels of the turns follow the rotation (the first half of C17)
TurnsLabelledInRotation ==
    \A k \in DOMAIN transcript.turns :
        transcript.turns[k].speaker
          = SpeakerLabel((k - 1) % transcript.participant_count)

\* a segment of positive length inside one turn carries that turn's label
PositiveSegmentGetsTurnLabel ==
    transcript.phase = "assigned"
      => \A i \in DOMAIN transcript.segments, k \in DOMAIN transcript.turns :
            LET segment == transcript.segments[i]
                turn == transcript.turns[k]
            IN (/\ segment.start < segment.end
                /\ turn.start <= segment.start
                /\ segment.end <= turn.end)
                 => segment.speaker = turn.speaker

\* start, end and text of the segments of a list, in their order
Timeline(segments) ==
    [i \in DOMAIN segments |->
       <<segments[i].start, segments[i].end, segments[i].text>>]

\* C18: update_speaker_names on a completed entry leaves the start, end and text
\* of every stored segment, and the number and order of the segments, as they
\* were; only names change.
C18_RemapKeepsTimeline ==
    [][\A speaker_map \in SpeakerMaps :
         (UpdateSpeakerNames(speaker_map) /\ transcript.entry.status = "completed")
           => /\ Timeline(transcript'.entry.segments) = Timeline(transcript.entry.segments)
              /\ Timeline(transcript'.entry.diarized_segments)
                   = Timeline(transcript.entry.diarized_segments)
              /\ \A i \in DOMAIN transcript.entry.segments :
                    transcript'.entry.segments[i].speaker
                      = transcript.entry.segments[i].speaker
              /\ transcript'.entry.transcriptData = transcript.entry.transcriptData
              /\ transcript'.entry.status = transcript.entry.status]_vars

\* a remap has given a segment of a completed entry a name
C18_RemappedCompleted ==
    /\ transcript.remaps > 0
    /\ transcript.entry.status = "completed"
    /\ \E i \in DOMAIN transcript.entry.segments :
          transcript.entry.segments[i].speaker_name = "Alice"

\* C19: the remap is idempotent: for every map, the completed entry after the
\* remap is the entry a second remap with the same map would store.
C19_RemapIdempotent ==
    [][\A speaker_map \in SpeakerMaps :
         (UpdateSpeakerNames(speaker_map) /\ transcript.entry.status = "completed")
           => update_speaker_names(transcript'.entry, speaker_map)
                = transcript'.entry]_vars

\* the remap is idempotent on the entries transcribe_async stored, which it
\* leaves as they are
RemapKeepsPipelineEntry ==
    [][\A speaker_map \in SpeakerMaps :
         (UpdateSpeakerNames(speaker_map) /\ transcript.duration > 0)
           => transcript'.entry = transcript.entry]_vars

\* a part request (write target or part upload) of a session
PartRequest(s) ==
    \/ \E part_number \in PartNumbers : upload_part(s, part_number)
    \/ \E part_number \in PartNumbers : get_presigned_upload_url(s, part_number)

\* C21: a part request fails with not-found for an unknown session and with a
\* conflict for a session that is already completed, and in both cases stores and
\* records no part.
C21_PartRequestRejected ==
    [][\A s \in Sessions :
         PartRequest(s)
           => /\ ~upload_session[s].exists
                   => /\ response'[s].code = 404
                      /\ UNCHANGED <<upload_session, part_objects>>
              /\ upload_session[s].upload_complete
                   => /\ response'[s].code = 409
                      /\ UNCHANGED <<upload_session, part_objects>>]_vars

\* a part request of an unknown session is answered 404 and stores nothing
UnknownSessionNotFound ==
    [][\A s \in Sessions :
         (PartRequest(s) /\ ~upload_session[s].exists)
           => /\ response'[s].code = 404
              /\ UNCHANGED <<upload_session, part_objects>>]_vars

\* the session-store records and stored objects that exist for a session
RecordsOf(s) ==
    {k[1] : k \in {k \in redis_keys : k[2] = s}}
      \cup (IF upload_session[s].exists THEN {"upload_session"} ELSE {})
      \cup (IF upload_progress[s].status # "absent" THEN {"upload_progress"} ELSE {})
      \cup (IF transcription[s].status # "absent" THEN {"transcription"} ELSE {})
      \cup (IF final_object[s].exists THEN {"object"} ELSE {})
      \cup (IF part_objects[s] # {} THEN {"part_objects"} ELSE {})

\* C22: after a successful delete_transcript of a session, no record derived from
\* the session and no stored object of the session remains.
C22_DeleteRemovesEverything ==
    \A s \in Sessions :
        (response[s].op = "delete" /\ response[s].code = 200) => RecordsOf(s) = {}

\* after a successful delete_transcript the entry, the session record, the
\* progress record and the keys it lists are gone
DeleteRemovesListedKeys ==
    \A s \in Sessions :
        (response[s].op = "delete" /\ response[s].code = 200)
          => RecordsOf(s) \cap ({"transcription", "upload_session", "upload_progress"}
                                  \cup DeletedKeys) = {}

\* C23: every session record carries a TTL after every operation. (The progress
\* record, the stage results and the stage errors are all written with setex.)
C23_SessionRecordExpires ==
    \A s \in Sessions : upload_session[s].exists => upload_session[s].ex > 0

\* a session record written by initialize_upload, upload_part or complete_upload
\* carries the TTL
MultipartSessionExpires ==
    \A s \in Sessions :
        (upload_session[s].exists
           /\ response[s].op \in {"initialize", "upload_part", "complete"}
           /\ response[s].code = 200)
          => upload_session[s].ex = SESSION_TTL

\* C24: a CompleteUpload whose assembly fails (a recorded part cannot be
\* downloaded) sets the session to failed with an error record, publishes no
\* stage message and leaves the part objects in place.
C24_FailedAssemblyRecorded ==
    [][\A s \in Sessions, claimed \in ClaimedParts, broker_up \in BOOLEAN :
         (/\ complete_upload(s, claimed, broker_up)
          /\ upload_session[s].parts # <<>>
          /\ response'[s].code # 200)
           => /\ upload_progress'[s].status = "error"
              /\ ErrorRecords(redis_keys', s) # {}
              /\ queue' = queue
              /\ part_objects' = part_objects]_vars

\* C25: initialize_upload with a declared size <= 0 is rejected with a validation
\* error and creates no session record; with a declared size > 0 it stores a new
\* session record under an id that had none and answers with success.
C25_InitializeValidatesSize ==
    [][\A s \in Sessions, request \in UploadRequests :
         initialize_upload(s, request)
           => IF request.file_size <= 0
              THEN /\ response'[s].code = 422
                   /\ upload_session' = upload_session
              ELSE /\ ~upload_session[s].exists
                   /\ upload_session'[s].exists
                   /\ upload_session'[s].file_size = request.file_size
                   /\ upload_session'[s].parts = <<>>
                   /\ response'[s].code = 200]_vars

\* an initialization was refused and no session record exists
C25_RefusedInitialization ==
    \E s \in Sessions :
        /\ response[s].op = "initialize"
        /\ response[s].code = 422
        /\ ~upload_session[s].exists

Transcribing(p) ==
    proc[p].pc \in {"ta_cp", "ta_store", "ta_95", "ta_llm", "ta_100",
                    "ta_err_progress", "ta_err_store"}

\* the video-processor has extracted the audio of a session and handed it to the
\* whisper service: transcribing:{sid} is set by POST /transcribe only
AudioExtracted(s) == HasKey("transcribing", s)

\* C27: the transcription of a session starts only after its audio extraction has
\* completed, the insight extraction only after its transcription result is
\* stored, and the message the file-uploader publishes for the first stage is
\* never handled by the transcription worker.
C27_StagesInOrder ==
    /\ \A p \in TAProcs : Transcribing(p) => AudioExtracted(proc[p].sid)
    /\ \A s \in Sessions :
          HasKey("llm_analysis", s) => transcription[s].status # "absent"
    /\ proc["wt"].msg.kind # "ok"

\* the transcription started through POST /transcribe follows the audio
\* extraction, and the analysis follows the stored transcription
BackgroundStagesInOrder ==
    /\ \A s \in Sessions : Transcribing(s) => AudioExtracted(proc[s].sid)
    /\ \A s \in Sessions :
          HasKey("llm_analysis", s) => transcription[s].status # "absent"

\* what a consumer has produced for the session of a message: its stage result,
\* the hand-off to the next stage (transcribing:{sid} set by POST /transcribe for
\* the video-processor, llm_analysis:{sid} for the whisper service) or an error
\* record
Outcome(keys, entries, w, s) ==
    \/ IF w = "vp" THEN <<"video_metadata", s>> \in keys
       ELSE entries[s].result # "none"
    \/ <<IF w = "vp" THEN "transcribing" ELSE "llm_analysis", s>> \in keys
    \/ ErrorRecords(keys, s) # {}

\* C28: every consumed stage message has led to a result, a hand-off or an error
\* record for its session when it is acknowledged.
C28_AckedWithOutcome ==
    [][\A w \in Workers :
         (/\ proc[w].pc # "idle"
          /\ proc'[w].pc = "idle"
          /\ proc[w].msg.kind = "ok")
           => Outcome(redis_keys, transcription, w, proc[w].msg.session_id)]_vars

\* C29: whenever a status read reports a session completed, its transcription
\* result and its insight result are stored; whenever it reports the session
\* failed, an error record is stored.
C29_TerminalStatusHasResult ==
    \A s \in Sessions :
        \A r \in StatusReads(s) :
            /\ r.status = "completed"
                 => /\ transcription[s].result # "none"
                    /\ HasKey("llm_analysis", s)
            /\ r.status = "error" => ErrorRecords(redis_keys, s) # {}

\* the hand-off of a consumer to the next stage has succeeded for a session:
\* POST /transcribe accepted the audio of the video-processor, the LLM service
\* stored the analysis of the transcription
HandedOff(w, s) ==
    IF w = "vp" THEN HasKey("transcribing", s) ELSE HasKey("llm_analysis", s)

\* C30: a consumer whose stage raised nothing acknowledges its message only after
\* the stage's result is stored and the hand-off to the next stage has succeeded.
C30_AckAfterResultAndHandOff ==
    [][\A w \in Workers :
         (/\ proc[w].pc = "ack"
          /\ proc'[w].pc = "idle"
          /\ proc[w].sid \notin stage_failed
          /\ ErrorRecords(redis_keys, proc[w].sid) = {})
           => /\ StageResultStored(w, proc[w].sid)
              /\ HandedOff(w, proc[w].sid)]_vars

\* the video-processor acknowledges on its success path only after video_metadata
\* is stored and POST /transcribe has accepted the audio
VideoProcessorAckAfterHandOff ==
    [][(/\ proc["vp"].pc = "ack"
        /\ proc'["vp"].pc = "idle"
        /\ ErrorRecords(redis_keys, proc["vp"].sid) = {})
         => /\ StageResultStored("vp", proc["vp"].sid)
            /\ HandedOff("vp", proc["vp"].sid)]_vars


\* the operations that store the complete object of a session: a successful
\* CompleteUpload and a successful direct upload
StoredComplete(resp) == resp.op \in {"complete", "direct_upload"} /\ resp.code = 200

RunsInFlight(w) ==
    IF w = "vp"
    THEN {p \in {"vp"} : proc[p].pc \in {"cp", "send", "err_progress", "err_store"}}
    ELSE {p \in TAProcs : Transcribing(p)}

\* C32: a consumer holds at most one unacknowledged delivery, and at most one
\* stage processing run is in flight in the process of each consumer.
C32_OneRunPerConsumerProcess ==
    \A w \in Workers :
        /\ proc[w].pc # "idle" => proc[w].msg # NoMsg
        /\ Cardinality(RunsInFlight(w)) <= 1

\* a consumer receives a message only when it holds no unacknowledged delivery
OneDeliveryPerConsumer ==
    [][\A w \in Workers : Deliver(w) => proc[w].pc = "idle" /\ proc[w].msg = NoMsg]_vars

Abs(x) == IF x < 0 THEN -x ELSE x

\* no turn has start <= segment_center <= end; center2 is twice the centre
NoTurnContains(center2, diarize_data) == FindTurn(center2, diarize_data) = ""

\* twice the distance from the centre to the nearer boundary of a turn
BoundaryDistance2(center2, turn) ==
    Min(Abs(center2 - 2 * turn.start), Abs(center2 - 2 * turn.end))

\* the turns whose boundary is nearest to the centre
NearestTurns(center2, diarize_data) ==
    {k \in DOMAIN diarize_data :
       \A j \in DOMAIN diarize_data :
          BoundaryDistance2(center2, diarize_data[k])
            <= BoundaryDistance2(center2, diarize_data[j])}

\* C33: after the assignment, a segment whose midpoint lies in no diarization
\* turn carries the label of a turn whose boundary is nearest to the midpoint.
C33_GapSegmentGetsNearestTurn ==
    transcript.phase = "assigned"
      => \A i \in DOMAIN transcript.segments :
            LET segment == transcript.segments[i]
                center2 == segment.start + segment.end
            IN NoTurnContains(center2, transcript.turns)
                 => \E k \in NearestTurns(center2, transcript.turns) :
                       segment.speaker = transcript.turns[k].speaker

\* C34: after the names were applied, a segment whose label is the i-th speaker
\* label and whose i-th supplied name is not empty has that name as speaker_name,
\* and a segment whose label has no such name has its label as speaker_name.
C34_NamesAppliedByPosition ==
    transcript.phase = "named"
      => \A k \in DOMAIN transcript.segments :
            LET segment == transcript.segments[k]
                names == transcript.speaker_names
                named == {i \in DOMAIN names :
                            /\ SpeakerLabel(i - 1) = segment.speaker
                            /\ names[i] \notin {"", " "}}
            IN /\ \A i \in named : segment.speaker_name = names[i]
               /\ named = {} => segment.speaker_name = segment.speaker

\* names were applied to two segments of different speakers: the second got the
\* second name, the first kept its label because the first name is blank
C34_NamedAndUnnamed ==
    /\ transcript.phase = "named"
    /\ transcript.speaker_names = <<" ", "Bob">>
    /\ \E k \in DOMAIN transcript.segments :
          /\ transcript.segments[k].speaker = "SPEAKER_1"
          /\ transcript.segments[k].speaker_name = "Bob"
    /\ \E k \in DOMAIN transcript.segments :
          /\ transcript.segments[k].speaker = "SPEAKER_0"
          /\ transcript.segments[k].speaker_name = "SPEAKER_0"

\* C35: every stored progress record has a percent within 0..100.
C35_PercentWithinRange ==
    \A s \in Sessions :
        upload_progress[s].status # "absent"
          => upload_progress[s].progress >= 0 /\ upload_progress[s].progress <= 100

\* POST /upload/progress/{session_id} and upload_part store a percent within 0..100
ValidatedPercentWithinRange ==
    [][\A s \in Sessions :
         (\/ \E progress \in ProgressValues, status \in ProgressStatuses :
                post_update_progress(s, progress, status)
          \/ \E part_number \in PartNumbers : upload_part(s, part_number))
           => \/ upload_progress'[s] = upload_progress[s]
              \/ upload_progress'[s].progress \in 0..100]_vars

\* C36: the participant count a transcription run of a session works with is the
\* number of speakers declared when the session was initialized.
C36_DeclaredSpeakersUsed ==
    \A p \in TAProcs :
        Transcribing(p)
          => proc[p].participant_count = upload_session[proc[p].sid].num_speakers

\* the runs started through the video-processor work with the declared number
DeclaredSpeakersThroughVideoProcessor ==
    \A s \in Sessions :
        Transcribing(s) => proc[s].participant_count = upload_session[s].num_speakers

\* the background runs of transcribe_async active for a session
ActiveRuns(s) == {p \in TaskSlots : Transcribing(p) /\ proc[p].sid = s}

\* C37: at most one transcription run started through POST /transcribe is active
\* for a session at a time.
C37_OneRunPerSession ==
    \A s \in Sessions : Cardinality(ActiveRuns(s)) <= 1

\* a POST /transcribe that finds transcribing:{sid} set is answered 409 and starts
\* no run
RequestWhileMarkedRefused ==
    [][\A s \in Sessions, participant_count \in 1..2 :
         (transcribe_audio_request(s, participant_count) /\ HasKey("transcribing", s))
           => response'[s].code = 409 /\ proc' = proc]_vars

\* a completed transcription result is stored for the session
CompletedResultStored(s) ==
    transcription[s].status = "completed" /\ transcription[s].result # "none"

\* C38: when a completed transcription result is stored for a session,
\* GET /transcription/{session_id} returns that result.
C38_StoredResultReturned ==
    [][\A s \in Sessions :
         (get_transcription(s) /\ CompletedResultStored(s))
           => /\ response'[s].code = 200
              /\ response'[s].body = transcription[s].result]_vars

\* without an error record of the session the stored result is returned
StoredResultReturnedWithoutError ==
    [][\A s \in Sessions :
         (/\ get_transcription(s)
          /\ CompletedResultStored(s)
          /\ ~HasKey("transcription_error", s))
           => response'[s].body = transcription[s].result]_vars

\* C39: the status of an access request changes only from pending to approved or
\* from pending to rejected; an admin's approve or reject of a request that is
\* not pending is answered 404 and changes no table; and a non-admin users row
\* appears for an email only with the approval of that email's pending request.
C39_RequestsDecidedOnce ==
    [][\A email \in Emails :
         /\ (auth.requests[email] # "none"
               /\ auth'.requests[email] # auth.requests[email])
              => /\ auth.requests[email] = "pending"
                 /\ auth'.requests[email] \in {"approved", "rejected"}
         /\ \A actor \in Emails :
              (/\ approve_request(actor, email) \/ reject_request(actor, email)
               /\ Authorize(auth, actor) = 200
               /\ auth.requests[email] # "pending")
                => /\ auth'.code = 404
                   /\ auth'.users = auth.users
                   /\ auth'.requests = auth.requests
         /\ (auth.users[email] = "none" /\ auth'.users[email] = "user")
              => /\ auth.requests[email] = "pending"
                 /\ auth'.requests[email] = "approved"
                 /\ auth'.op = "approve"]_vars

\* one request was approved and its account exists, another was rejected, and a
\* further decision on a request that is no longer pending was answered 404
C39_DecidedRequestRefused ==
    /\ auth.requests["u1@x"] = "approved"
    /\ auth.users["u1@x"] = "user"
    /\ auth.requests["u2@x"] = "rejected"
    /\ auth.op \in {"approve", "reject"}
    /\ auth.code = 404

\* C40: once the service has started with its admin, at least one admin user
\* exists after any sequence of toggle-admin and delete-user requests.
C40_AdminRemains ==
    auth.started => \E email \in Emails : auth.users[email] = "admin"

\* with a users.id the driver returns as a str, an admin always remains
AdminRemainsWithTextIds ==
    (auth.started /\ auth.id_type = "text")
      => \E email \in Emails : auth.users[email] = "admin"

====
